---- MODULE Spec2Model ----
(***************************************************************************)
(* React Outline: the document symbol provider of src/src/provider.ts and  *)
(* the classification and JSX tree building of src/src/parser.ts.          *)
(*                                                                         *)
(* A syntax tree node is a record with a type, a loc and the fields of its *)
(* Babel node type.  Identifier names and tag names are sequences of       *)
(* characters, so that the regular expressions of the parser are computed. *)
(* A NodePath is modelled by its node; the parentPath chain, which only    *)
(* isTopLevelJSX reads, is carried by the paths of a traversal.            *)
(***************************************************************************)
EXTENDS Integers, Sequences, FiniteSets, TLC

VARIABLES document, config, token, pc, queue, symbols, result

vars == <<document, config, token, pc, queue, symbols, result>>

RECURSIVE Size(_), SumSize(_), Locate(_, _, _), LocateSeq(_, _, _)
RECURSIVE Descendants(_), DescendantsSeq(_)
RECURSIVE traversePaths(_, _), traversePathsSeq(_, _)
RECURSIVE isTopLevelJSXFrom(_, _, _)
RECURSIVE memberExpressionParts(_), join(_, _)
RECURSIVE addJSXSymbol(_, _, _, _), addJSXSymbolChildren(_, _, _, _, _, _)
RECURSIVE processFragmentChildren(_, _, _, _), processFragmentChildrenLoop(_, _, _, _, _, _)
RECURSIVE processJSXExpression(_, _, _, _, _)
RECURSIVE traverseCallExpressionForJSX(_, _, _, _, _), traverseCallArguments(_, _, _, _, _, _)
RECURSIVE traverseCallStatements(_, _, _, _, _, _)
RECURSIVE buildJSXTreeLoop(_, _, _, _, _, _)
RECURSIVE getFunctionBodyLoop(_, _)
RECURSIVE nearestDeclarations(_), nearestDeclarationsSeq(_)
RECURSIVE traverseFrom(_, _)
RECURSIVE spineMarkup(_)
RECURSIVE depthBelow(_, _, _), nearestMarkup(_), nearestMarkupSeq(_)
RECURSIVE markupTree(_, _, _), markupForest(_, _, _), linesOf(_), inDocumentOrder(_)
RECURSIVE spliceFragments(_), countFragments(_)
RECURSIVE outlineNodesAt(_, _), rangesOf(_), emittedRanges(_)

(***************************************************************************)
(* Syntax tree                                                             *)
(***************************************************************************)

Null == [type |-> "Null"]

NoLoc == [line |-> 0, column |-> 0]

UpperCase ==
  {"A", "B", "C", "D", "E", "F", "G", "H", "I", "J", "K", "L", "M",
   "N", "O", "P", "Q", "R", "S", "T", "U", "V", "W", "X", "Y", "Z"}

identifier(name) == [type |-> "Identifier", loc |-> NoLoc, name |-> name]

memberExpression(object, property) ==
  [type |-> "MemberExpression", loc |-> NoLoc, object |-> object, property |-> property]

objectPattern == [type |-> "ObjectPattern", loc |-> NoLoc]

objectExpression == [type |-> "ObjectExpression", loc |-> NoLoc]

jsxIdentifier(name) == [type |-> "JSXIdentifier", name |-> name]

jsxMemberExpression(object, property) ==
  [type |-> "JSXMemberExpression", object |-> object, property |-> property]

jsxNamespacedName(namespace, name) ==
  [type |-> "JSXNamespacedName", namespace |-> namespace, name |-> name]

jsxElement(name, children) ==
  [type |-> "JSXElement", loc |-> NoLoc, name |-> name, children |-> children]

jsxFragment(children) ==
  [type |-> "JSXFragment", loc |-> NoLoc, children |-> children]

jsxText == [type |-> "JSXText", loc |-> NoLoc]

jsxEmptyExpression == [type |-> "JSXEmptyExpression", loc |-> NoLoc]

jsxExpressionContainer(expression) ==
  [type |-> "JSXExpressionContainer", loc |-> NoLoc, expression |-> expression]

logicalExpression(left, right) ==
  [type |-> "LogicalExpression", loc |-> NoLoc, left |-> left, right |-> right]

conditionalExpression(test, consequent, alternate) ==
  [type |-> "ConditionalExpression", loc |-> NoLoc, test |-> test,
   consequent |-> consequent, alternate |-> alternate]

callExpression(callee, arguments) ==
  [type |-> "CallExpression", loc |-> NoLoc, callee |-> callee, arguments |-> arguments]

arrowFunctionExpression(body) ==
  [type |-> "ArrowFunctionExpression", loc |-> NoLoc, body |-> body]

functionExpression(body) ==
  [type |-> "FunctionExpression", loc |-> NoLoc, body |-> body]

blockStatement(body) == [type |-> "BlockStatement", loc |-> NoLoc, body |-> body]

returnStatement(argument) ==
  [type |-> "ReturnStatement", loc |-> NoLoc, argument |-> argument]

functionDeclaration(id, body) ==
  [type |-> "FunctionDeclaration", loc |-> NoLoc, id |-> id, body |-> body]

variableDeclarator(id, init) ==
  [type |-> "VariableDeclarator", loc |-> NoLoc, id |-> id, init |-> init]

classMethod(key, body) ==
  [type |-> "ClassMethod", loc |-> NoLoc, key |-> key, body |-> body]

classProperty(key, value) ==
  [type |-> "ClassProperty", loc |-> NoLoc, key |-> key, value |-> value]

classBody(body) == [type |-> "ClassBody", loc |-> NoLoc, body |-> body]

classDeclaration(id, superClass, body) ==
  [type |-> "ClassDeclaration", loc |-> NoLoc, id |-> id, superClass |-> superClass,
   body |-> body]

program(body) == [type |-> "Program", loc |-> NoLoc, body |-> body]

\* The nodes a Babel traversal visits below a node, in the order of the
\* node type's visitor keys (names, keys and patterns hold no markup here).
SubNodes(n) ==
  CASE n.type \in {"Program", "BlockStatement", "ClassBody"} -> n.body
    [] n.type \in {"FunctionDeclaration", "ArrowFunctionExpression",
                   "FunctionExpression", "ClassMethod", "ClassDeclaration"} -> <<n.body>>
    [] n.type = "VariableDeclarator" -> <<n.init>>
    [] n.type = "ClassProperty" -> <<n.value>>
    [] n.type = "ReturnStatement" -> <<n.argument>>
    [] n.type \in {"JSXElement", "JSXFragment"} -> n.children
    [] n.type = "JSXExpressionContainer" -> <<n.expression>>
    [] n.type = "LogicalExpression" -> <<n.left, n.right>>
    [] n.type = "ConditionalExpression" -> <<n.test, n.consequent, n.alternate>>
    [] n.type = "CallExpression" -> <<n.callee>> \o n.arguments
    [] OTHER -> <<>>

WithSubNodes(n, s) ==
  CASE n.type \in {"Program", "BlockStatement", "ClassBody"} -> [n EXCEPT !.body = s]
    [] n.type \in {"FunctionDeclaration", "ArrowFunctionExpression",
                   "FunctionExpression", "ClassMethod", "ClassDeclaration"} ->
         [n EXCEPT !.body = s[1]]
    [] n.type = "VariableDeclarator" -> [n EXCEPT !.init = s[1]]
    [] n.type = "ClassProperty" -> [n EXCEPT !.value = s[1]]
    [] n.type = "ReturnStatement" -> [n EXCEPT !.argument = s[1]]
    [] n.type \in {"JSXElement", "JSXFragment"} -> [n EXCEPT !.children = s]
    [] n.type = "JSXExpressionContainer" -> [n EXCEPT !.expression = s[1]]
    [] n.type = "LogicalExpression" -> [n EXCEPT !.left = s[1], !.right = s[2]]
    [] n.type = "ConditionalExpression" ->
         [n EXCEPT !.test = s[1], !.consequent = s[2], !.alternate = s[3]]
    [] n.type = "CallExpression" ->
         [n EXCEPT !.callee = s[1], !.arguments = SubSeq(s, 2, Len(s))]
    [] OTHER -> n

Size(n) == 1 + SumSize(SubNodes(n))

SumSize(s) == IF s = <<>> THEN 0 ELSE Size(Head(s)) + SumSize(Tail(s))

\* The parser's source positions: every node starts on a line of its own,
\* in document order, indented by its nesting.
Locate(n, line, column) ==
  WithSubNodes([n EXCEPT !.loc = [line |-> line, column |-> column]],
               LocateSeq(SubNodes(n), line + 1, column + 1))

LocateSeq(s, line, column) ==
  IF s = <<>> THEN <<>>
  ELSE <<Locate(Head(s), line, column)>>
       \o LocateSeq(Tail(s), line + Size(Head(s)), column)

parse(code) == Locate(code, 1, 0)

\* Every node below n, in traversal order.
Descendants(n) == DescendantsSeq(SubNodes(n))

DescendantsSeq(s) ==
  IF s = <<>> THEN <<>>
  ELSE <<Head(s)>> \o Descendants(Head(s)) \o DescendantsSeq(Tail(s))

\* path.traverse: the paths below a path, in visiting order; each carries
\* its parentPath chain, nearest first, up to and including the path the
\* traversal started from.
PathRef(n) == [type |-> n.type, loc |-> n.loc]

traversePaths(n, parents) ==
  traversePathsSeq(SubNodes(n), <<PathRef(n)>> \o parents)

traversePathsSeq(s, parents) ==
  IF s = <<>> THEN <<>>
  ELSE <<[node |-> Head(s), parents |-> parents]>>
       \o traversePaths(Head(s), parents)
       \o traversePathsSeq(Tail(s), parents)


\* The identifiers and tag names of the documents, spelled out.
s_Button == <<"B", "u", "t", "t", "o", "n">>

s_Card == <<"C", "a", "r", "d">>

s_Header == <<"H", "e", "a", "d", "e", "r">>

s_TodoList == <<"T", "o", "d", "o", "L", "i", "s", "t">>

s_ConditionalComponent == <<"C", "o", "n", "d", "i", "t", "i", "o", "n", "a", "l", "C", "o", "m", "p", "o", "n", "e", "n", "t">>

s_TernaryComponent == <<"T", "e", "r", "n", "a", "r", "y", "C", "o", "m", "p", "o", "n", "e", "n", "t">>

s_List == <<"L", "i", "s", "t">>

s_FragmentExample == <<"F", "r", "a", "g", "m", "e", "n", "t", "E", "x", "a", "m", "p", "l", "e">>

s_ShortFragmentExample == <<"S", "h", "o", "r", "t", "F", "r", "a", "g", "m", "e", "n", "t", "E", "x", "a", "m", "p", "l", "e">>

s_Parent == <<"P", "a", "r", "e", "n", "t">>

s_Child == <<"C", "h", "i", "l", "d">>

s_useCustomHook == <<"u", "s", "e", "C", "u", "s", "t", "o", "m", "H", "o", "o", "k">>

s_useAuth == <<"u", "s", "e", "A", "u", "t", "h">>

s_DeepNesting == <<"D", "e", "e", "p", "N", "e", "s", "t", "i", "n", "g">>

s_React == <<"R", "e", "a", "c", "t">>

s_Component == <<"C", "o", "m", "p", "o", "n", "e", "n", "t">>

s_PureComponent == <<"P", "u", "r", "e", "C", "o", "m", "p", "o", "n", "e", "n", "t">>

s_Fragment == <<"F", "r", "a", "g", "m", "e", "n", "t">>

s_Base == <<"B", "a", "s", "e">>

s_helper == <<"h", "e", "l", "p", "e", "r">>

s_user == <<"u", "s", "e", "r">>

s_render == <<"r", "e", "n", "d", "e", "r">>

s_button == <<"b", "u", "t", "t", "o", "n">>

s_span == <<"s", "p", "a", "n">>

s_div == <<"d", "i", "v">>

s_h1 == <<"h", "1">>

s_h2 == <<"h", "2">>

s_p == <<"p">>

s_header == <<"h", "e", "a", "d", "e", "r">>

s_nav == <<"n", "a", "v">>

s_a == <<"a">>

s_ul == <<"u", "l">>

s_li == <<"l", "i">>

s_section == <<"s", "e", "c", "t", "i", "o", "n">>

s_article == <<"a", "r", "t", "i", "c", "l", "e">>

s_svg == <<"s", "v", "g">>

s_use == <<"u", "s", "e">>

s_Item == <<"I", "t", "e", "m">>

s_label == <<"l", "a", "b", "e", "l">>

s_items == <<"i", "t", "e", "m", "s">>

s_map == <<"m", "a", "p">>

s_useState == <<"u", "s", "e", "S", "t", "a", "t", "e">>

(***************************************************************************)
(* Names and tags                                                          *)
(***************************************************************************)

\* /^[A-Z]/.test(name)
startsUpperCase(name) == Len(name) >= 1 /\ name[1] \in UpperCase

\* /^use[A-Z]/.test(name)
startsUseUpperCase(name) ==
  /\ Len(name) >= 4
  /\ name[1] = "u" /\ name[2] = "s" /\ name[3] = "e"
  /\ name[4] \in UpperCase

FragmentTag == <<"<", "F", "r", "a", "g", "m", "e", "n", "t", ">">>

UnknownName == <<"U", "n", "k", "n", "o", "w", "n">>

AnonymousName == <<"A", "n", "o", "n", "y", "m", "o", "u", "s">>

join(parts, separator) ==
  IF parts = <<>> THEN <<>>
  ELSE IF Len(parts) = 1 THEN parts[1]
  ELSE parts[1] \o separator \o join(Tail(parts), separator)

memberExpressionParts(current) ==
  IF current.type = "JSXMemberExpression"
  THEN memberExpressionParts(current.object)
       \o (IF current.property.type = "JSXIdentifier"
           THEN <<current.property.name>> ELSE <<>>)
  ELSE IF current.type = "JSXIdentifier" THEN <<current.name>>
  ELSE <<>>

formatMemberExpression(expr) == join(memberExpressionParts(expr), <<".">>)

getJSXTagName(node) ==
  IF node.type = "JSXFragment" THEN FragmentTag
  ELSE IF node.type = "JSXElement"
       /\ node.name.type \in {"JSXIdentifier", "JSXMemberExpression", "JSXNamespacedName"}
  THEN CASE node.name.type = "JSXIdentifier" -> node.name.name
         [] node.name.type = "JSXMemberExpression" -> formatMemberExpression(node.name)
         [] node.name.type = "JSXNamespacedName" ->
              node.name.namespace.name \o <<":">> \o node.name.name.name
  ELSE UnknownName

getJSXSymbolKind(tagName) ==
  IF tagName = FragmentTag THEN "Namespace"
  ELSE IF startsUpperCase(tagName) THEN "Class"
  ELSE "Field"

getJSXChildren(node) ==
  IF node.type \in {"JSXElement", "JSXFragment"} THEN node.children ELSE <<>>

\* The range keeps the start position; selectionRange is the same range.
astRangeToVsCodeRange(loc) ==
  IF loc = Null THEN [line |-> 0, character |-> 0]
  ELSE [line |-> loc.line - 1, character |-> loc.column]

DocumentSymbol(name, detail, kind, range, children) ==
  [name |-> name, detail |-> detail, kind |-> kind, range |-> range,
   children |-> children]

configGet(cfg, key, default) == IF key \in DOMAIN cfg THEN cfg[key] ELSE default

(***************************************************************************)
(* The JSX tree of a component                                             *)
(***************************************************************************)

findChildPath(parentPath, childNode) ==
  LET below == Descendants(parentPath)
  IN IF \E i \in 1..Len(below) : below[i] = childNode THEN childNode ELSE Null

findExpressionPath(parentPath, exprNode) == findChildPath(parentPath, exprNode)

isJSX(node) == node.type \in {"JSXElement", "JSXFragment"}

\* Each operator returns the symbols the function pushes onto
\* parentSymbol.children, in the order it pushes them.
\* addJSXSymbol with the depth test off by one.
addJSXSymbolOffByOne(jsxPath, currentDepth, maxDepth, showFragments) ==
  IF currentDepth > maxDepth THEN <<>>
  ELSE LET tagName == getJSXTagName(jsxPath)
       IN <<DocumentSymbol(tagName, "", getJSXSymbolKind(tagName),
                           astRangeToVsCodeRange(jsxPath.loc),
                           addJSXSymbolChildren(jsxPath, getJSXChildren(jsxPath), 1,
                                                currentDepth, maxDepth, showFragments))>>

addJSXSymbol(jsxPath, currentDepth, maxDepth, showFragments) ==
  IF currentDepth >= maxDepth THEN <<>>
  ELSE LET tagName == getJSXTagName(jsxPath)
       IN <<DocumentSymbol(tagName, "", getJSXSymbolKind(tagName),
                           astRangeToVsCodeRange(jsxPath.loc),
                           addJSXSymbolChildren(jsxPath, getJSXChildren(jsxPath), 1,
                                                currentDepth, maxDepth, showFragments))>>

addJSXSymbolChildren(jsxPath, children, i, currentDepth, maxDepth, showFragments) ==
  IF i > Len(children) THEN <<>>
  ELSE LET child == children[i]
           pushed ==
             IF isJSX(child)
             THEN LET childPath == findChildPath(jsxPath, child)
                  IN IF childPath = Null THEN <<>>
                     ELSE IF child.type = "JSXFragment" /\ ~showFragments
                     THEN processFragmentChildren(childPath, currentDepth + 1,
                                                  maxDepth, showFragments)
                     ELSE addJSXSymbol(childPath, currentDepth + 1, maxDepth,
                                       showFragments)
             ELSE IF child.type = "JSXExpressionContainer"
             THEN processJSXExpression(child, currentDepth + 1, maxDepth,
                                       showFragments, jsxPath)
             ELSE <<>>
       IN pushed \o addJSXSymbolChildren(jsxPath, children, i + 1, currentDepth,
                                         maxDepth, showFragments)

processFragmentChildren(fragmentPath, currentDepth, maxDepth, showFragments) ==
  processFragmentChildrenLoop(fragmentPath, getJSXChildren(fragmentPath), 1,
                              currentDepth, maxDepth, showFragments)

processFragmentChildrenLoop(fragmentPath, children, i, currentDepth, maxDepth, showFragments) ==
  IF i > Len(children) THEN <<>>
  ELSE LET child == children[i]
           pushed ==
             IF child.type = "JSXElement"
             THEN LET childPath == findChildPath(fragmentPath, child)
                  IN IF childPath = Null THEN <<>>
                     ELSE addJSXSymbol(childPath, currentDepth, maxDepth, showFragments)
             ELSE IF child.type = "JSXFragment"
             THEN LET childPath == findChildPath(fragmentPath, child)
                  IN IF childPath = Null THEN <<>>
                     ELSE processFragmentChildren(childPath, currentDepth, maxDepth,
                                                  showFragments)
             ELSE IF child.type = "JSXExpressionContainer"
             THEN processJSXExpression(child, currentDepth, maxDepth, showFragments,
                                       fragmentPath)
             ELSE <<>>
       IN pushed \o processFragmentChildrenLoop(fragmentPath, children, i + 1,
                                                currentDepth, maxDepth, showFragments)

\* One operand of an unwrapped expression: lines 334-339, 343-348, 349-354,
\* 378-383 and 388-393 all have this shape.
addJSXOperand(operand, currentDepth, maxDepth, showFragments, parentPath) ==
  IF isJSX(operand)
  THEN LET operandPath == findExpressionPath(parentPath, operand)
       IN IF operandPath = Null THEN <<>>
          ELSE addJSXSymbol(operandPath, currentDepth, maxDepth, showFragments)
  ELSE <<>>

\* processJSXExpression with the alternate of a ternary added before its
\* consequent.
processJSXExpressionAlternateFirst(expression, currentDepth, maxDepth, showFragments, parentPath) ==
  IF currentDepth >= maxDepth THEN <<>>
  ELSE LET expr == expression.expression
       IN IF expr.type = "LogicalExpression"
          THEN addJSXOperand(expr.right, currentDepth, maxDepth, showFragments, parentPath)
          ELSE IF expr.type = "ConditionalExpression"
          THEN addJSXOperand(expr.alternate, currentDepth, maxDepth, showFragments,
                             parentPath)
               \o addJSXOperand(expr.consequent, currentDepth, maxDepth, showFragments,
                                parentPath)
          ELSE IF expr.type = "CallExpression"
          THEN traverseCallExpressionForJSX(expr, currentDepth, maxDepth, showFragments,
                                            parentPath)
          ELSE <<>>

processJSXExpression(expression, currentDepth, maxDepth, showFragments, parentPath) ==
  IF currentDepth >= maxDepth THEN <<>>
  ELSE LET expr == expression.expression
       IN IF expr.type = "JSXEmptyExpression" THEN <<>>
          ELSE IF expr.type = "LogicalExpression"
          THEN addJSXOperand(expr.right, currentDepth, maxDepth, showFragments, parentPath)
          ELSE IF expr.type = "ConditionalExpression"
          THEN addJSXOperand(expr.consequent, currentDepth, maxDepth, showFragments,
                             parentPath)
               \o addJSXOperand(expr.alternate, currentDepth, maxDepth, showFragments,
                                parentPath)
          ELSE IF expr.type = "CallExpression"
          THEN traverseCallExpressionForJSX(expr, currentDepth, maxDepth, showFragments,
                                            parentPath)
          ELSE <<>>

traverseCallExpressionForJSX(callExpr, currentDepth, maxDepth, showFragments, parentPath) ==
  traverseCallArguments(callExpr.arguments, 1, currentDepth, maxDepth, showFragments,
                        parentPath)

traverseCallArguments(arguments, i, currentDepth, maxDepth, showFragments, parentPath) ==
  IF i > Len(arguments) THEN <<>>
  ELSE LET arg == arguments[i]
           pushed ==
             IF arg.type \in {"ArrowFunctionExpression", "FunctionExpression"}
             THEN IF isJSX(arg.body)
                  THEN addJSXOperand(arg.body, currentDepth, maxDepth, showFragments,
                                     parentPath)
                  ELSE IF arg.body.type = "BlockStatement"
                  THEN traverseCallStatements(arg.body.body, 1, currentDepth, maxDepth,
                                              showFragments, parentPath)
                  ELSE <<>>
             ELSE <<>>
       IN pushed \o traverseCallArguments(arguments, i + 1, currentDepth, maxDepth,
                                          showFragments, parentPath)

traverseCallStatements(statements, i, currentDepth, maxDepth, showFragments, parentPath) ==
  IF i > Len(statements) THEN <<>>
  ELSE LET statement == statements[i]
           pushed ==
             IF statement.type = "ReturnStatement" /\ statement.argument # Null
             THEN addJSXOperand(statement.argument, currentDepth, maxDepth,
                                showFragments, parentPath)
             ELSE <<>>
       IN pushed \o traverseCallStatements(statements, i + 1, currentDepth, maxDepth,
                                           showFragments, parentPath)

isTopLevelJSXFrom(parents, i, bodyPath) ==
  IF i > Len(parents) \/ parents[i] = PathRef(bodyPath) THEN TRUE
  ELSE IF parents[i].type \in {"JSXElement", "JSXFragment"} THEN FALSE
  ELSE isTopLevelJSXFrom(parents, i + 1, bodyPath)

\* isTopLevelJSX without the walk up the parents: all markup of the body
\* counts as top-level.
isTopLevelJSXAnywhere(jsxPath, bodyPath) == TRUE

isTopLevelJSX(jsxPath, bodyPath) == isTopLevelJSXFrom(jsxPath.parents, 1, bodyPath)

\* getFunctionBodyLoop taking the first class method for render, whatever
\* its name.
getFunctionBodyLoopAnyMethod(methods, i) ==
  IF i > Len(methods) THEN Null
  ELSE IF methods[i].type = "ClassMethod" THEN methods[i].body
  ELSE getFunctionBodyLoop(methods, i + 1)

getFunctionBodyLoop(methods, i) ==
  IF i > Len(methods) THEN Null
  ELSE IF /\ methods[i].type = "ClassMethod"
          /\ methods[i].key.type = "Identifier"
          /\ methods[i].key.name = s_render
  THEN methods[i].body
  ELSE getFunctionBodyLoop(methods, i + 1)

getFunctionBody(componentPath) ==
  IF componentPath.type = "FunctionDeclaration" THEN componentPath.body
  ELSE IF componentPath.type = "ClassDeclaration"
  THEN getFunctionBodyLoop(componentPath.body.body, 1)
  ELSE IF componentPath.type = "VariableDeclarator"
  THEN IF componentPath.init.type \in {"ArrowFunctionExpression", "FunctionExpression"}
       THEN componentPath.init.body
       ELSE Null
  ELSE Null

\* The visitors of bodyPath.traverse, over the paths below bodyPath.
buildJSXTreeLoop(paths, i, processedPaths, bodyPath, maxDepth, showFragments) ==
  IF i > Len(paths) THEN <<>>
  ELSE LET jsxPath == paths[i]
           fresh == /\ isJSX(jsxPath.node)
                    /\ jsxPath.node.loc \notin processedPaths
                    /\ isTopLevelJSX(jsxPath, bodyPath)
           pushed ==
             IF ~fresh THEN <<>>
             ELSE IF jsxPath.node.type = "JSXElement" \/ showFragments
             THEN addJSXSymbol(jsxPath.node, 0, maxDepth, showFragments)
             ELSE processFragmentChildren(jsxPath.node, 0, maxDepth, showFragments)
       IN pushed
          \o buildJSXTreeLoop(paths, i + 1,
                              IF fresh THEN processedPaths \cup {jsxPath.node.loc}
                              ELSE processedPaths,
                              bodyPath, maxDepth, showFragments)

buildJSXTree(componentPath, cfg, maxDepth) ==
  LET bodyPath == getFunctionBody(componentPath)
  IN IF bodyPath = Null THEN <<>>
     ELSE buildJSXTreeLoop(traversePaths(bodyPath, <<>>), 1, {}, bodyPath, maxDepth,
                           configGet(cfg, "showFragments", TRUE))


(***************************************************************************)
(* Classification of declarations                                          *)
(***************************************************************************)

hasJSXReturn(functionPath) ==
  LET below == Descendants(functionPath)
  IN \E i \in 1..Len(below) : isJSX(below[i])

\* isFunctionComponent without the markup test: an uppercase name alone
\* makes a function a component.
isFunctionComponentByName(path) == path.id # Null /\ startsUpperCase(path.id.name)

isFunctionComponent(path) ==
  path.id # Null /\ startsUpperCase(path.id.name) /\ hasJSXReturn(path)

isCustomHook(path) == path.id # Null /\ startsUseUpperCase(path.id.name)

\* superClass.matchesPattern('<object>.<property>')
matchesPattern(node, object, property) ==
  /\ node.type = "MemberExpression"
  /\ node.object.type = "Identifier" /\ node.object.name = object
  /\ node.property.type = "Identifier" /\ node.property.name = property

isIdentifier(node, name) == node.type = "Identifier" /\ node.name = name

isClassComponent(path) ==
  IF path.id = Null \/ ~startsUpperCase(path.id.name) THEN FALSE
  ELSE \/ matchesPattern(path.superClass, s_React, s_Component)
       \/ matchesPattern(path.superClass, s_React, s_PureComponent)
       \/ isIdentifier(path.superClass, s_Component)
       \/ isIdentifier(path.superClass, s_PureComponent)

getComponentName(path) ==
  IF path.type \in {"FunctionDeclaration", "ClassDeclaration"}
  THEN IF path.id # Null THEN path.id.name ELSE AnonymousName
  ELSE IF path.type = "VariableDeclarator" /\ path.id.type = "Identifier"
  THEN path.id.name
  ELSE UnknownName

DefaultMaxJSXDepth == 2

createComponentSymbol(path, type, cfg) ==
  DocumentSymbol(getComponentName(path),
                 IF type = "class" THEN "Class Component" ELSE "Function Component",
                 IF type = "class" THEN "Class" ELSE "Function",
                 astRangeToVsCodeRange(path.loc),
                 buildJSXTree(path, cfg, configGet(cfg, "maxJSXDepth", DefaultMaxJSXDepth)))

createHookSymbol(path) ==
  DocumentSymbol(getComponentName(path), "Hook", "Function",
                 astRangeToVsCodeRange(path.loc), <<>>)

\* A visitor gives the symbols it pushes and whether it calls path.skip().
\* visitFunctionDeclaration skipping a hook only when it is shown.
visitFunctionDeclarationSkipShown(path, cfg) ==
  IF isFunctionComponent(path)
  THEN [push |-> <<createComponentSymbol(path, "function", cfg)>>, skip |-> TRUE]
  ELSE IF isCustomHook(path)
  THEN [push |-> IF configGet(cfg, "showHooks", TRUE)
                 THEN <<createHookSymbol(path)>> ELSE <<>>,
        skip |-> configGet(cfg, "showHooks", TRUE)]
  ELSE [push |-> <<>>, skip |-> FALSE]

visitFunctionDeclaration(path, cfg) ==
  IF isFunctionComponent(path)
  THEN [push |-> <<createComponentSymbol(path, "function", cfg)>>, skip |-> TRUE]
  ELSE IF isCustomHook(path)
  THEN [push |-> IF configGet(cfg, "showHooks", TRUE)
                 THEN <<createHookSymbol(path)>> ELSE <<>>,
        skip |-> TRUE]
  ELSE [push |-> <<>>, skip |-> FALSE]

visitVariableDeclarator(path, cfg) ==
  IF path.id = Null \/ path.id.type # "Identifier"
  THEN [push |-> <<>>, skip |-> FALSE]
  ELSE IF path.init.type \notin {"ArrowFunctionExpression", "FunctionExpression"}
  THEN [push |-> <<>>, skip |-> FALSE]
  ELSE IF startsUpperCase(path.id.name) /\ hasJSXReturn(path.init)
  THEN [push |-> <<createComponentSymbol(path, "arrow", cfg)>>, skip |-> TRUE]
  ELSE IF startsUseUpperCase(path.id.name)
  THEN [push |-> IF configGet(cfg, "showHooks", TRUE)
                 THEN <<createHookSymbol(path)>> ELSE <<>>,
        skip |-> TRUE]
  ELSE [push |-> <<>>, skip |-> FALSE]

visitClassDeclaration(path, cfg) ==
  IF isClassComponent(path)
  THEN [push |-> <<createComponentSymbol(path, "class", cfg)>>, skip |-> TRUE]
  ELSE [push |-> <<>>, skip |-> FALSE]

DeclarationTypes == {"FunctionDeclaration", "VariableDeclarator", "ClassDeclaration"}

\* The paths with a visitor that traverse() reaches next below a node: the
\* declarations not inside another declaration, in visiting order.
nearestDeclarations(n) == nearestDeclarationsSeq(SubNodes(n))

nearestDeclarationsSeq(s) ==
  IF s = <<>> THEN <<>>
  ELSE (IF Head(s).type \in DeclarationTypes THEN <<Head(s)>>
        ELSE nearestDeclarations(Head(s)))
       \o nearestDeclarationsSeq(Tail(s))

visit(path, cfg) ==
  CASE path.type = "FunctionDeclaration" -> visitFunctionDeclaration(path, cfg)
    [] path.type = "VariableDeclarator" -> visitVariableDeclarator(path, cfg)
    [] path.type = "ClassDeclaration" -> visitClassDeclaration(path, cfg)

\* What path.skip() leaves to visit: the rest of the queue, behind the
\* declarations inside the visited one unless it was skipped.
afterVisit(pending, skip) ==
  (IF skip THEN <<>> ELSE nearestDeclarations(Head(pending))) \o Tail(pending)

traverseFrom(pending, cfg) ==
  IF pending = <<>> THEN <<>>
  ELSE LET v == visit(Head(pending), cfg)
       IN v.push \o traverseFrom(afterVisit(pending, v.skip), cfg)

getSymbolsFromDocument(doc, cfg) ==
  IF doc.syntaxError THEN <<>>
  ELSE traverseFrom(nearestDeclarations(parse(doc.code)), cfg)


(***************************************************************************)
(* Documents                                                               *)
(***************************************************************************)

el(tag, children) == jsxElement(jsxIdentifier(tag), children)

braces(expression) == jsxExpressionContainer(expression)

returns(argument) == blockStatement(<<returnStatement(argument)>>)

reactComponent == memberExpression(identifier(s_React), identifier(s_Component))

itemsMap == memberExpression(identifier(s_items), identifier(s_map))

useStateCall ==
  variableDeclarator(objectPattern, callExpression(identifier(s_useState), <<>>))

\* src/test-components.tsx, declaration by declaration.
TestComponents ==
  program(<<
    variableDeclarator(identifier(s_Button),
      arrowFunctionExpression(
        el(s_button, <<el(s_span, <<braces(identifier(s_label))>>)>>))),
    variableDeclarator(identifier(s_Card),
      arrowFunctionExpression(returns(
        el(s_div, <<el(s_h2, <<braces(identifier(s_label))>>),
                    el(s_p, <<braces(identifier(s_label))>>)>>)))),
    functionDeclaration(identifier(s_Header), returns(
      el(s_header, <<el(s_h1, <<jsxText>>),
                     el(s_nav, <<el(s_a, <<jsxText>>), el(s_a, <<jsxText>>)>>)>>))),
    classDeclaration(identifier(s_TodoList), reactComponent,
      classBody(<<classMethod(identifier(s_render), returns(
        el(s_div, <<el(s_h1, <<jsxText>>),
                    el(s_ul, <<el(s_li, <<jsxText>>), el(s_li, <<jsxText>>)>>)>>)))>>)),
    variableDeclarator(identifier(s_ConditionalComponent),
      arrowFunctionExpression(
        el(s_div, <<braces(logicalExpression(identifier(s_label),
                                             el(s_h1, <<jsxText>>))),
                    el(s_p, <<jsxText>>)>>))),
    variableDeclarator(identifier(s_TernaryComponent),
      arrowFunctionExpression(
        el(s_div, <<braces(conditionalExpression(identifier(s_label),
                                                 el(s_span, <<jsxText>>),
                                                 el(s_span, <<jsxText>>)))>>))),
    variableDeclarator(identifier(s_List),
      arrowFunctionExpression(
        el(s_ul, <<braces(callExpression(itemsMap,
                     <<arrowFunctionExpression(
                         el(s_li, <<braces(identifier(s_label))>>))>>))>>))),
    variableDeclarator(identifier(s_FragmentExample),
      arrowFunctionExpression(
        jsxElement(jsxMemberExpression(jsxIdentifier(s_React), jsxIdentifier(s_Fragment)),
                   <<el(s_div, <<jsxText>>), el(s_div, <<jsxText>>)>>))),
    variableDeclarator(identifier(s_ShortFragmentExample),
      arrowFunctionExpression(
        jsxFragment(<<el(s_div, <<jsxText>>), el(s_div, <<jsxText>>)>>))),
    functionDeclaration(identifier(s_Parent), blockStatement(<<
      functionDeclaration(identifier(s_Child), returns(
        el(s_div, <<el(s_span, <<jsxText>>)>>))),
      returnStatement(el(s_div, <<el(s_Child, <<>>)>>))>>)),
    functionDeclaration(identifier(s_useCustomHook), blockStatement(<<
      useStateCall, returnStatement(objectExpression)>>)),
    variableDeclarator(identifier(s_useAuth),
      arrowFunctionExpression(blockStatement(<<
        useStateCall, returnStatement(objectExpression)>>))),
    variableDeclarator(identifier(s_DeepNesting),
      arrowFunctionExpression(
        el(s_div, <<el(s_section, <<el(s_article,
          <<el(s_div, <<el(s_p, <<jsxText>>)>>)>>)>>)>>)))
  >>)

\* How a markup node is placed under its parent (or in a return statement):
\* literally, or as the operand of an expression the builder unwraps.
attachExpression(attach, markup) ==
  CASE attach = "literal" -> markup
    [] attach = "and" -> logicalExpression(identifier(s_label), markup)
    [] attach = "ternary" ->
         conditionalExpression(identifier(s_label), markup, el(s_span, <<>>))
    [] attach = "else" ->
         conditionalExpression(identifier(s_label), identifier(s_label), markup)
    [] attach = "map" -> callExpression(itemsMap, <<arrowFunctionExpression(markup)>>)
    [] attach = "mapReturn" ->
         callExpression(itemsMap, <<functionExpression(returns(markup))>>)

attachChild(attach, markup) ==
  IF attach = "literal" THEN markup ELSE braces(attachExpression(attach, markup))

\* A chain of nested markup, one level per element of levels; every node
\* above the last has a second child after the nested one.
spineMarkup(levels) ==
  LET children ==
        IF Len(levels) = 1 THEN <<jsxText>>
        ELSE <<attachChild(levels[2].attach, spineMarkup(Tail(levels))),
               el(s_Item, <<>>)>>
  IN IF levels[1].kind = "element" THEN el(s_div, children)
     ELSE jsxFragment(children)

LevelKinds ==
  {[attach |-> "literal", kind |-> "element"],
   [attach |-> "literal", kind |-> "fragment"],
   [attach |-> "and", kind |-> "element"],
   [attach |-> "and", kind |-> "fragment"],
   [attach |-> "ternary", kind |-> "element"],
   [attach |-> "else", kind |-> "fragment"],
   [attach |-> "map", kind |-> "element"],
   [attach |-> "mapReturn", kind |-> "fragment"]}

MaxNest == 2

Spines == UNION {[1..k -> LevelKinds] : k \in 1..MaxNest}

componentOf(declarationKind, name, rendered) ==
  CASE declarationKind = "function" ->
         functionDeclaration(identifier(name), returns(rendered))
    [] declarationKind = "arrow" ->
         variableDeclarator(identifier(name), arrowFunctionExpression(rendered))
    [] declarationKind = "arrowBlock" ->
         variableDeclarator(identifier(name),
                            arrowFunctionExpression(returns(rendered)))
    [] declarationKind = "class" ->
         classDeclaration(identifier(name), reactComponent,
           classBody(<<classMethod(identifier(s_render), returns(rendered))>>))

SpineDocuments ==
  {program(<<componentOf(k, s_Card,
                         attachExpression(levels[1].attach, spineMarkup(levels)))>>) :
     k \in {"function", "arrow", "arrowBlock", "class"}, levels \in Spines}

\* Declarations of every kind, name and shape the classification reads.
DeclarationIds ==
  {identifier(n) : n \in {s_Card, s_useAuth, s_helper, s_user}} \cup {Null}

SuperClasses ==
  {reactComponent,
   memberExpression(identifier(s_React), identifier(s_PureComponent)),
   memberExpression(identifier(s_Base), identifier(s_Component)),
   identifier(s_Component), identifier(s_PureComponent), identifier(s_Base), Null}

FunctionDeclarations ==
  {functionDeclaration(id, body) :
     id \in DeclarationIds,
     body \in {returns(el(s_div, <<>>)), returns(jsxFragment(<<>>)),
               returns(objectExpression)}}

VariableDeclarators ==
  {variableDeclarator(id, init) :
     id \in (DeclarationIds \ {Null}) \cup {objectPattern},
     init \in {arrowFunctionExpression(el(s_div, <<>>)),
               arrowFunctionExpression(returns(objectExpression)),
               functionExpression(returns(el(s_div, <<>>))),
               el(s_div, <<>>), identifier(s_label)}}

ClassMembers ==
  {<<classMethod(identifier(s_render), returns(el(s_div, <<>>)))>>,
   <<classMethod(identifier(s_helper), returns(el(s_div, <<>>))),
     classMethod(identifier(s_render), returns(el(s_ul, <<>>)))>>,
   <<classMethod(identifier(s_helper), returns(el(s_div, <<>>)))>>,
   <<classProperty(identifier(s_render), arrowFunctionExpression(el(s_div, <<>>)))>>,
   <<>>}

ClassDeclarations ==
  {classDeclaration(id, superClass, classBody(members)) :
     id \in {identifier(s_TodoList), identifier(s_helper), Null},
     superClass \in SuperClasses, members \in ClassMembers}

InnerDeclarations ==
  {functionDeclaration(identifier(s_Child), returns(el(s_span, <<>>))),
   functionDeclaration(identifier(s_useState), returns(objectExpression)),
   variableDeclarator(identifier(s_Child), arrowFunctionExpression(el(s_span, <<>>))),
   classDeclaration(identifier(s_Child), reactComponent,
     classBody(<<classMethod(identifier(s_render), returns(el(s_span, <<>>)))>>))}

NestedDeclarations ==
  {functionDeclaration(identifier(n), blockStatement(<<inner, returnStatement(out)>>)) :
     n \in {s_Parent, s_useAuth, s_helper}, inner \in InnerDeclarations,
     out \in {el(s_div, <<el(s_Child, <<>>)>>), objectExpression}}
  \cup
  {classDeclaration(identifier(s_helper), Null,
     classBody(<<classMethod(identifier(s_helper),
                             blockStatement(<<inner, returnStatement(objectExpression)>>))>>)) :
     inner \in InnerDeclarations}
  \cup
  {variableDeclarator(identifier(s_Parent),
     arrowFunctionExpression(blockStatement(<<inner,
       returnStatement(el(s_div, <<el(s_Child, <<>>)>>))>>))) :
     inner \in InnerDeclarations}
  \cup
  {classDeclaration(identifier(s_Parent), reactComponent,
     classBody(<<classMethod(identifier(s_render), blockStatement(<<inner,
       returnStatement(el(s_div, <<el(s_Child, <<>>)>>))>>))>>)) :
     inner \in InnerDeclarations}

SiblingDeclarations ==
  {functionDeclaration(identifier(s_Header), returns(el(s_header, <<>>))),
   functionDeclaration(identifier(s_useCustomHook), returns(objectExpression)),
   variableDeclarator(identifier(s_useAuth),
                      arrowFunctionExpression(returns(el(s_div, <<>>)))),
   variableDeclarator(identifier(s_Button),
                      arrowFunctionExpression(returns(el(s_button, <<>>)))),
   functionDeclaration(identifier(s_List), returns(objectExpression)),
   functionDeclaration(identifier(s_helper), blockStatement(<<
     functionDeclaration(identifier(s_Child), returns(el(s_span, <<>>))),
     returnStatement(objectExpression)>>))}

MaxDecls == 2

DeclarationDocuments ==
  {program(<<d>>) : d \in FunctionDeclarations \cup VariableDeclarators
                          \cup ClassDeclarations \cup NestedDeclarations}
  \cup {program(ds) : ds \in UNION {[1..k -> SiblingDeclarations] : k \in 2..MaxDecls}}

Documents ==
  {[code |-> c, syntaxError |-> FALSE] :
     c \in {TestComponents} \cup SpineDocuments \cup DeclarationDocuments}
  \cup {[code |-> program(<<>>), syntaxError |-> TRUE]}

MaxDepthSetting == 3

\* The settings are read one by one, each with its default when unset.
Configurations ==
  [maxJSXDepth : 0..MaxDepthSetting, showFragments : BOOLEAN]
  \cup [showFragments : BOOLEAN, showHooks : BOOLEAN]
  \cup {[maxJSXDepth |-> -1], [showHooks |-> FALSE],
        [maxJSXDepth |-> 1, showFragments |-> TRUE, showHooks |-> FALSE]}

(***************************************************************************)
(* The provider                                                            *)
(***************************************************************************)

Init ==
  /\ document \in Documents
  /\ config \in Configurations
  /\ token = FALSE
  /\ pc = "idle"
  /\ queue = <<>>
  /\ symbols = <<>>
  /\ result = <<>>

\* provider.ts:12 calls getSymbolsFromDocument, which reads the text and
\* the configuration and starts the traversal; a parse error returns [].
provideDocumentSymbols ==
  /\ pc = "idle"
  /\ IF document.syntaxError
     THEN /\ pc' = "done"
          /\ queue' = <<>>
     ELSE /\ pc' = "traverse"
          /\ queue' = nearestDeclarations(parse(document.code))
  /\ symbols' = <<>>
  /\ result' = <<>>
  /\ UNCHANGED <<document, config, token>>

visitNext(type) ==
  /\ pc = "traverse"
  /\ queue # <<>>
  /\ Head(queue).type = type
  /\ LET v == visit(Head(queue), config)
     IN /\ symbols' = symbols \o v.push
        /\ queue' = afterVisit(queue, v.skip)
  /\ UNCHANGED <<document, config, token, pc, result>>

FunctionDeclaration == visitNext("FunctionDeclaration")

VariableDeclarator == visitNext("VariableDeclarator")

ClassDeclaration == visitNext("ClassDeclaration")

returnSymbols ==
  /\ pc = "traverse"
  /\ queue = <<>>
  /\ result' = symbols
  /\ pc' = "done"
  /\ UNCHANGED <<document, config, token, queue, symbols>>

Next ==
  \/ provideDocumentSymbols
  \/ FunctionDeclaration
  \/ VariableDeclarator
  \/ ClassDeclaration
  \/ returnSymbols

Spec == Init /\ [][Next]_vars

\* The host cancels the request while it is in progress.
cancel ==
  /\ pc \in {"idle", "traverse"}
  /\ ~token
  /\ token' = TRUE
  /\ UNCHANGED <<document, config, pc, queue, symbols, result>>

NextCancel == Next \/ cancel

SpecCancel == Init /\ [][NextCancel]_vars


(***************************************************************************)
(* Properties                                                              *)
(***************************************************************************)

ast == parse(document.code)

allNodes == <<ast>> \o Descendants(ast)

nodeIn(nodes, range) ==
  nodes[CHOOSE i \in 1..Len(nodes) : astRangeToVsCodeRange(nodes[i].loc) = range]

maxDepthSetting == configGet(config, "maxJSXDepth", DefaultMaxJSXDepth)

showFragmentsSetting == configGet(config, "showFragments", TRUE)

showHooksSetting == configGet(config, "showHooks", TRUE)

withSetting(cfg, key, value) ==
  [k \in DOMAIN cfg \cup {key} |-> IF k = key THEN value ELSE cfg[k]]

containsMarkup(n) == isJSX(n) \/ hasJSXReturn(n)

containsFragment(n) ==
  \/ n.type = "JSXFragment"
  \/ LET below == Descendants(n)
     IN \E i \in 1..Len(below) : below[i].type = "JSXFragment"

\* The lines a node spans.
spanOf(n) == n.loc.line .. (n.loc.line + Size(n) - 1)

depthBelow(children, depth, limit) ==
  \A i \in 1..Len(children) :
    depth < limit /\ depthBelow(children[i].children, depth + 1, limit)

\* C1: no markup node of any entry sits at a markup depth >= maxDepth, a
\* direct child of an entry having depth 0; with maxDepth <= 0 an entry has
\* no children.
C1_DepthInvariant ==
  /\ \A i \in 1..Len(symbols) : depthBelow(symbols[i].children, 0, maxDepthSetting)
  /\ \A i \in 1..Len(result) : depthBelow(result[i].children, 0, maxDepthSetting)

\* A node at depth 1 = maxDepth - 1 whose own markup was cut.
C1_Witness ==
  /\ pc = "done"
  /\ maxDepthSetting = 2
  /\ LET nodes == allNodes IN
     \E i \in 1..Len(result) :
       \E j \in 1..Len(result[i].children) :
         \E k \in 1..Len(result[i].children[j].children) :
           LET deepest == result[i].children[j].children[k]
           IN deepest.children = <<>> /\ hasJSXReturn(nodeIn(nodes, deepest.range))

\* The markup nodes next below a node, through any nesting, in document
\* order.
nearestMarkup(n) == nearestMarkupSeq(SubNodes(n))

nearestMarkupSeq(s) ==
  IF s = <<>> THEN <<>>
  ELSE (IF isJSX(Head(s)) THEN <<Head(s)>> ELSE nearestMarkup(Head(s)))
       \o nearestMarkupSeq(Tail(s))

\* The markup tree of a root, cut to the levels below limit.
markupTree(node, depth, limit) ==
  IF depth >= limit THEN <<>>
  ELSE <<DocumentSymbol(getJSXTagName(node), "", getJSXSymbolKind(getJSXTagName(node)),
                        astRangeToVsCodeRange(node.loc),
                        markupForest(nearestMarkup(node), depth + 1, limit))>>

markupForest(nodes, depth, limit) ==
  IF nodes = <<>> THEN <<>>
  ELSE markupTree(Head(nodes), depth, limit) \o markupForest(Tail(nodes), depth, limit)

isExpressionBodiedArrow(d) ==
  /\ d.type = "VariableDeclarator"
  /\ d.init.type = "ArrowFunctionExpression"
  /\ d.init.body.type = "JSXElement"

\* C2: an arrow component whose body is directly a markup element has
\* exactly one child, the node of that root element, with the root's nested
\* markup beneath it.
C2_ArrowExpressionRoot ==
  LET nodes == allNodes IN
  \A i \in 1..Len(result) :
    LET d == nodeIn(nodes, result[i].range)
    IN (isExpressionBodiedArrow(d) /\ maxDepthSetting >= 1) =>
         /\ Len(result[i].children) = 1
         /\ result[i].children[1].range = astRangeToVsCodeRange(d.init.body.loc)
         /\ result[i].children[1].name = getJSXTagName(d.init.body)
         /\ (showFragmentsSetting \/ ~containsFragment(d.init.body)) =>
              result[i].children = markupTree(d.init.body, 0, maxDepthSetting)

\* The block whose rendered output a declaration's entry shows.
renderBlockOf(d) ==
  IF d.type = "FunctionDeclaration" THEN d.body
  ELSE IF d.type = "VariableDeclarator" THEN d.init.body
  ELSE LET renders == {m \in {d.body.body[k] : k \in 1..Len(d.body.body)} :
                         m.type = "ClassMethod" /\ m.key.name = s_render}
       IN IF renders = {} THEN Null ELSE (CHOOSE m \in renders : TRUE).body

returnsSingleRoot(block) ==
  /\ block.type = "BlockStatement"
  /\ Len(block.body) = 1
  /\ block.body[1].type = "ReturnStatement"
  /\ block.body[1].argument.type = "JSXElement"

linesOf(children) ==
  UNION {{children[i].range.line + 1} \cup linesOf(children[i].children) :
           i \in 1..Len(children)}

isQualifying(d, cfg) == visit(d, cfg).push # <<>>

\* C4: a function declaration nested in another function declaration is a
\* top-level entry of its own and none of its markup is in the outer
\* declaration's tree.
C4_NestedDeclarationIndependent ==
  pc = "done" =>
    LET nodes == allNodes IN
    \A o \in 1..Len(nodes), n \in 1..Len(nodes) :
      LET outer == nodes[o]
          inner == nodes[n]
      IN (/\ outer.type = "FunctionDeclaration"
          /\ inner.type = "FunctionDeclaration"
          /\ o # n
          /\ inner.loc.line \in spanOf(outer)) =>
           /\ isQualifying(inner, config) =>
                \E k \in 1..Len(result) :
                  result[k].range = astRangeToVsCodeRange(inner.loc)
           /\ \A k \in 1..Len(result) :
                result[k].range = astRangeToVsCodeRange(outer.loc) =>
                  linesOf(result[k].children) \cap spanOf(inner) = {}

isComponentEntry(s) == s.detail # "Hook"

\* C5: with showHooks off the result has no Hook entry, and its entries are
\* the component entries of the result with showHooks on, whole subtrees
\* included, in the same order.
C5_HookToggling ==
  (pc = "done" /\ ~showHooksSetting) =>
    /\ \A i \in 1..Len(result) : result[i].detail # "Hook"
    /\ result = SelectSeq(getSymbolsFromDocument(document,
                                                 withSetting(config, "showHooks", TRUE)),
                          isComponentEntry)

\* Hooks are off, the document has hooks and components.
C5_Witness ==
  /\ pc = "done"
  /\ ~showHooksSetting
  /\ result # <<>>
  /\ LET shown == getSymbolsFromDocument(document,
                                         withSetting(config, "showHooks", TRUE))
     IN \E i \in 1..Len(shown) : shown[i].detail = "Hook"


spliceFragments(children) ==
  IF children = <<>> THEN <<>>
  ELSE (IF Head(children).name = FragmentTag
        THEN spliceFragments(Head(children).children)
        ELSE <<[Head(children) EXCEPT !.children = spliceFragments(@)]>>)
       \o spliceFragments(Tail(children))

countFragments(children) ==
  IF children = <<>> THEN 0
  ELSE (IF Head(children).name = FragmentTag THEN 1 ELSE 0)
       + countFragments(Head(children).children)
       + countFragments(Tail(children))

\* The fragments of a body, the body itself included.
fragmentsOf(n) ==
  IF n = Null THEN 0
  ELSE LET within == <<n>> \o Descendants(n)
       IN Cardinality({i \in 1..Len(within) : within[i].type = "JSXFragment"})

withFragments(shown) ==
  getSymbolsFromDocument(document, withSetting(config, "showFragments", shown))

\* The tree with fragments shown does not change when maxDepth grows: no
\* node of it is cut.
nothingCut ==
  withFragments(TRUE) =
    getSymbolsFromDocument(document,
      withSetting(withSetting(config, "showFragments", TRUE),
                  "maxJSXDepth", Size(document.code)))

\* C6: with the same maxDepth, the tree with showFragments on differs from
\* the tree with showFragments off by one wrapping node per fragment, the
\* nodes under a fragment being the nodes that replace it; stated where
\* maxDepth cuts nothing, for fragments at every position.
C6_FragmentToggling ==
  (pc = "done" /\ nothingCut) =>
    LET shown == IF showFragmentsSetting THEN result ELSE withFragments(TRUE)
        hidden == IF showFragmentsSetting THEN withFragments(FALSE) ELSE result
        nodes == allNodes
    IN /\ Len(shown) = Len(hidden)
       /\ \A i \in 1..Len(shown) :
            /\ spliceFragments(shown[i].children) = hidden[i].children
            /\ isComponentEntry(shown[i]) =>
                 countFragments(shown[i].children)
                   = fragmentsOf(getFunctionBody(nodeIn(nodes, shown[i].range)))

declarationName(d) ==
  IF d.id # Null /\ d.id.type = "Identifier" THEN d.id.name ELSE <<>>

isFunctionLike(d) ==
  \/ d.type = "FunctionDeclaration"
  \/ /\ d.type = "VariableDeclarator"
     /\ d.init.type \in {"ArrowFunctionExpression", "FunctionExpression"}

\* A declaration the classification must leave out: its name is neither a
\* hook name nor uppercase, or it is a function or arrow with an uppercase
\* name and no markup anywhere in it.
isInert(d) ==
  \/ ~startsUpperCase(declarationName(d)) /\ ~startsUseUpperCase(declarationName(d))
  \/ /\ isFunctionLike(d)
     /\ startsUpperCase(declarationName(d))
     /\ ~containsMarkup(IF d.type = "FunctionDeclaration" THEN d.body ELSE d.init.body)

entryAt(d) ==
  {k \in 1..Len(result) : result[k].range = astRangeToVsCodeRange(d.loc)}

hasRenderMethod(d) ==
  \E k \in 1..Len(d.body.body) :
    /\ d.body.body[k].type = "ClassMethod"
    /\ d.body.body[k].key.name = s_render

hasComponentSuperClass(d) ==
  \/ /\ d.superClass.type = "MemberExpression"
     /\ d.superClass.object.name = s_React
     /\ d.superClass.property.name \in {s_Component, s_PureComponent}
  \/ /\ d.superClass.type = "Identifier"
     /\ d.superClass.name \in {s_Component, s_PureComponent}

\* C8: a class entry comes from a class that extends a component class and
\* has a method named render.
C8_ClassNeedsRender ==
  LET nodes == allNodes IN
  \A i \in 1..Len(result) :
    LET d == nodeIn(nodes, result[i].range)
    IN d.type = "ClassDeclaration" =>
         hasComponentSuperClass(d) /\ hasRenderMethod(d)

before(r1, r2) ==
  r1.line < r2.line \/ (r1.line = r2.line /\ r1.character < r2.character)

inDocumentOrder(ss) ==
  /\ \A i \in 1..(Len(ss) - 1) : before(ss[i].range, ss[i + 1].range)
  /\ \A i \in 1..Len(ss) : inDocumentOrder(ss[i].children)

\* C9: the entries are in the order their declarations start, and the
\* children of every node in the order of the markup they were built from.
C9_DocumentOrder == inDocumentOrder(symbols) /\ inDocumentOrder(result)

\* Two entries, and a node with two children.
C9_Witness ==
  /\ pc = "done"
  /\ Len(result) >= 2
  /\ \E i \in 1..Len(result) :
       \E j \in 1..Len(result[i].children) :
         Len(result[i].children[j].children) >= 2

\* C10: once the cancellation signal is set, a request that is between two
\* declarations visits no further declaration: its next step returns.
C10_CancellationStops ==
  [][(token /\ pc = "traverse") => pc' = "done"]_vars

\* The markup a callback passed to a call stands for: its body, or the
\* argument of a return among the immediate statements of its block.
callbackMarkup(arg) ==
  IF arg.type \notin {"ArrowFunctionExpression", "FunctionExpression"} THEN {}
  ELSE IF isJSX(arg.body) THEN {arg.body}
  ELSE IF arg.body.type = "BlockStatement"
  THEN {arg.body.body[k].argument :
          k \in {k \in 1..Len(arg.body.body) :
                   /\ arg.body.body[k].type = "ReturnStatement"
                   /\ isJSX(arg.body.body[k].argument)}}
  ELSE {}

\* The markup operands an embedded expression is unwrapped to.
operandsOf(expr) ==
  IF expr.type = "LogicalExpression" THEN {m \in {expr.right} : isJSX(m)}
  ELSE IF expr.type = "ConditionalExpression"
  THEN {m \in {expr.consequent, expr.alternate} : isJSX(m)}
  ELSE IF expr.type = "CallExpression"
  THEN UNION {callbackMarkup(expr.arguments[i]) : i \in 1..Len(expr.arguments)}
  ELSE {}

\* The operands reached through the embedded-expression children of a node.
embeddedOperands(E) ==
  UNION {operandsOf(E.children[i].expression) :
           i \in {i \in 1..Len(E.children) :
                    E.children[i].type = "JSXExpressionContainer"}}

\* Whether a literal markup child at depth d would get a node of its own.
literalChildEmitted(m, d) ==
  d < maxDepthSetting /\ (m.type = "JSXElement" \/ showFragmentsSetting)

unwrappedAsLiteral(s, d, nodes, operands(_)) ==
  LET E == nodeIn(nodes, s.range)
      childRanges == {s.children[k].range : k \in 1..Len(s.children)}
  IN /\ \A m \in operands(E) :
          (astRangeToVsCodeRange(m.loc) \in childRanges) <=> literalChildEmitted(m, d + 1)
     /\ \A k \in 1..Len(s.children) : isJSX(nodeIn(nodes, s.children[k].range))

outlineNodesAt(children, d) ==
  IF children = <<>> THEN {}
  ELSE {[node |-> Head(children), depth |-> d]}
       \cup outlineNodesAt(Head(children).children, d + 1)
       \cup outlineNodesAt(Tail(children), d)

markupNodesOf(entries) ==
  UNION {outlineNodesAt(entries[i].children, 0) : i \in 1..Len(entries)}

\* C11: a markup node reached through an embedded-expression child of an
\* emitted node at depth d is a direct child of that node's outline node
\* exactly when a literal markup child there would be emitted (d + 1 below
\* maxDepth, and not a hidden fragment), and every child of an outline node
\* is a markup node, never a condition or a call.
C11_UnwrappingDepthNeutral ==
  pc = "done" =>
    LET nodes == allNodes IN
    \A e \in markupNodesOf(result) :
      unwrappedAsLiteral(e.node, e.depth, nodes, embeddedOperands)

\* The operands that are elements.
embeddedElements(E) == {m \in embeddedOperands(E) : m.type = "JSXElement"}

\* The part of C11 that is about element operands.
C11_ElementOperands ==
  pc = "done" =>
    LET nodes == allNodes IN
    \A e \in markupNodesOf(result) :
      unwrappedAsLiteral(e.node, e.depth, nodes, embeddedElements)

\* An element operand emitted as a child of a node at depth 0.
C11_ElementOperandsWitness ==
  /\ pc = "done"
  /\ maxDepthSetting >= 2
  /\ LET nodes == allNodes IN
     \E e \in markupNodesOf(result) :
       /\ e.depth = 0
       /\ \E m \in embeddedElements(nodeIn(nodes, e.node.range)) :
            \E k \in 1..Len(e.node.children) :
              e.node.children[k].range = astRangeToVsCodeRange(m.loc)

fragmentNodesOf(entries) ==
  {e \in markupNodesOf(entries) : e.node.name = FragmentTag}

\* C12: with showFragments off, no node of the result carries the fragment
\* label, wherever the fragment is reached.
C12_NoFragmentNodeWhenHidden ==
  (pc = "done" /\ ~showFragmentsSetting) => fragmentNodesOf(result) = {}

\* The part of C12 about fragments that are not operands of an embedded
\* expression: with showFragments off, every node with the fragment label
\* comes from a fragment that is such an operand.
C12_OnlyOperandsShown ==
  (pc = "done" /\ ~showFragmentsSetting) =>
    LET nodes == allNodes IN
    \A e \in fragmentNodesOf(result) :
      \E n \in 1..Len(nodes) : nodeIn(nodes, e.node.range) \in operandsOf(nodes[n])

\* Fragments are hidden and an element directly under a fragment has a
\* node.
C12_OnlyOperandsShownWitness ==
  /\ pc = "done"
  /\ ~showFragmentsSetting
  /\ LET nodes == allNodes
         emitted == {e.node.range : e \in markupNodesOf(result)}
     IN \E n \in 1..Len(nodes) :
          /\ nodes[n].type = "JSXFragment"
          /\ \E j \in 1..Len(nodes[n].children) :
               /\ nodes[n].children[j].type = "JSXElement"
               /\ astRangeToVsCodeRange(nodes[n].children[j].loc) \in emitted

\* The ranges of the markup nodes of a child sequence, one per outline node.
rangesOf(children) ==
  IF children = <<>> THEN <<>>
  ELSE <<Head(children).range>> \o rangesOf(Head(children).children)
       \o rangesOf(Tail(children))

emittedRanges(entries) ==
  IF entries = <<>> THEN <<>>
  ELSE rangesOf(Head(entries).children) \o emittedRanges(Tail(entries))

\* C13: every markup outline node of the result comes from a markup node of
\* the file, and no two outline nodes, in one entry's tree or in the trees
\* of two entries, come from the same markup node.
C13_AtMostOneOutlineNode ==
  pc = "done" =>
    LET emitted == emittedRanges(result)
        nodes == allNodes
    IN /\ \A i \in 1..Len(emitted) :
            \E n \in 1..Len(nodes) :
              isJSX(nodes[n]) /\ astRangeToVsCodeRange(nodes[n].loc) = emitted[i]
       /\ \A i \in 1..Len(emitted), j \in 1..Len(emitted) :
            i # j => emitted[i] # emitted[j]

\* Two entries with markup, one of them with a node below a top-level
\* node, in a file where markup is nested in a declaration inside another.
C13_Witness ==
  /\ pc = "done"
  /\ \E i \in 1..Len(result), j \in 1..Len(result) :
       /\ i # j
       /\ result[i].children # <<>>
       /\ result[j].children # <<>>
       /\ \E k \in 1..Len(result[i].children) : result[i].children[k].children # <<>>
  /\ LET nodes == allNodes IN
     \E o \in 1..Len(nodes), n \in 1..Len(nodes) :
       /\ o # n
       /\ nodes[o].type \in DeclarationTypes
       /\ nodes[n].type \in DeclarationTypes
       /\ nodes[n].loc.line \in spanOf(nodes[o])
       /\ containsMarkup(nodes[n])

====
